---- MODULE Spec2Model ----
(***************************************************************************)
(* Model of the design-sync hook (src/hooks/use-design-sync.ts).           *)
(*                                                                         *)
(* The hook keeps an element's structured `design` object and its list of  *)
(* class tokens in agreement.  The model covers the hook's refs            *)
(* (layerRef, currentLayerIdRef, debouncedFnMapRef), the props of the      *)
(* latest render, the element graph owned by the caller (store) and the    *)
(* patches handed to onLayerUpdate that the caller has not applied yet.    *)
(*                                                                         *)
(* Encoding of values:                                                     *)
(*   - a class token "max-md:hover:w-full" is the record                   *)
(*     [bp |-> "mobile", st |-> "hover", cls |-> "w-full"]; the prefix is  *)
(*     kept structured, the body is the string the codec produced;         *)
(*   - a class list (string or array in the code, normalised with          *)
(*     split(' ').filter(Boolean)) is a sequence of tokens;                *)
(*   - an object is a function whose DOMAIN is the set of its keys;        *)
(*   - an optional object (textStyles, styleOverrides) is a sequence of    *)
(*     length 0 (undefined) or 1;                                          *)
(*   - null / undefined strings are the values Null / Undefined.           *)
(***************************************************************************)
EXTENDS Integers, Sequences, FiniteSets, TLC

VARIABLES
    store,               \* element graph of the caller: id -> Layer
    applies,             \* when the caller applies a patch: "now" or "later"
    inflight,            \* onLayerUpdate calls the caller has not applied yet
    emitted,             \* number of onLayerUpdate calls made so far
    layer,               \* `layer` prop of the latest render
    activeBreakpoint,    \* props of the latest render
    activeUIState,
    activeTextStyleKey,
    isTextEditing,       \* editor store: isEditing as of the latest render
    selection,           \* editor store: what hasTextSelection() returns now
    layerRef,            \* layerRef.current
    currentLayerIdRef,   \* currentLayerIdRef.current
    effectPending,       \* the [layer?.id] effect of the last commit has not run
    debounced,           \* debouncedFnMapRef: property -> pending trailing call
    mounted,             \* the component using the hook is mounted
    renders,             \* number of renders of the hook so far
    scheduled,           \* number of debouncedUpdateDesignProperty calls so far
    last                 \* history: the handler that ran last

vars == <<store, applies, inflight, emitted, layer, activeBreakpoint, activeUIState,
          activeTextStyleKey, isTextEditing, selection, layerRef,
          currentLayerIdRef, effectPending, debounced, mounted, renders, scheduled, last>>

----------------------------------------------------------------------------
(* Bounds of the model                                                     *)

MaxPatches == 2
MaxWrites == 1
MaxRenders == 2
MaxBatch == 2
MaxCalls == 3

(* Program constant: the debounce wait in milliseconds.  Time is abstracted:
   a pending call may fire at any later step. *)
DebounceWait == 150

----------------------------------------------------------------------------
(* Value universe                                                          *)

Null == "<null>"
Undefined == "<undefined>"
NullId == "<none>"

Ids == {"A", "B"}
Breakpoints == {"desktop", "tablet", "mobile"}
UIStates == {"neutral", "hover"}
TextStyleKeys == {"bold", "dts"}

Categories == {"typography", "sizing"}
Props == {"fontSize", "width"}
CategoryOf(property) == IF property = "fontSize" THEN "typography" ELSE "sizing"

(* Values an editor writes; Null and "" both count as "remove". *)
ValuesOf(property) == IF property = "fontSize" THEN {"xl", "3xl"} ELSE {"full"}
Falsy(value) == value \in {Null, ""}
WriteValues(property) == ValuesOf(property) \cup {Null}

EmptyObj == [k \in {} |-> ""]

----------------------------------------------------------------------------
(* Token codec (collaborator @/lib/tailwind-class-mapper, spec section 6)  *)

(* The class bodies of the model with their dash-separated parts. *)
ClassTable ==
    { [property |-> "fontSize", value |-> "xl",   cls |-> "text-xl",  parts |-> <<"text", "xl">>],
      [property |-> "fontSize", value |-> "3xl",  cls |-> "text-3xl", parts |-> <<"text", "3xl">>],
      [property |-> "width",    value |-> "full", cls |-> "w-full",   parts |-> <<"w", "full">>],
      [property |-> "width",    value |-> "1/2",  cls |-> "w-1/2",    parts |-> <<"w", "1/2">>],
      [property |-> "fontWeight", value |-> "bold", cls |-> "font-bold", parts |-> <<"font", "bold">>] }

(* cls.split('-') *)
SplitDash(cls) == (CHOOSE r \in ClassTable : r.cls = cls).parts

(* parts.join('-'); the values of the model have a single part *)
JoinDash(parts) == IF Len(parts) = 1 THEN parts[1] ELSE Undefined

(* valueToToken: the class body for a structured value *)
propertyToClass(category, property, value) ==
    (CHOOSE r \in ClassTable : r.property = property /\ r.value = value).cls

(* getConflictingClassPattern(property).test(cls) *)
getConflictingClassPattern(property, cls) ==
    \E r \in ClassTable : r.property = property /\ r.parts[1] = SplitDash(cls)[1]

(* applyConflictAndPrefix: drop the token of the exact (property, breakpoint,
   state) triple, then add the new one if there is one *)
setBreakpointClass(classes, property, newClass, breakpoint, uiState) ==
    LET keep(t) == ~(t.bp = breakpoint /\ t.st = uiState
                      /\ getConflictingClassPattern(property, t.cls))
        filtered == SelectSeq(classes, keep)
    IN  IF newClass = Null THEN filtered
        ELSE Append(filtered, [bp |-> breakpoint, st |-> uiState, cls |-> newClass])

(* removeAllTokensForProperty: drop every token of the property, whatever
   its breakpoint and state *)
replaceConflictingClasses(classes, property, newClass) ==
    LET keep(t) == ~getConflictingClassPattern(property, t.cls)
        filtered == SelectSeq(classes, keep)
    IN  IF newClass = Null THEN filtered
        ELSE Append(filtered, [bp |-> "desktop", st |-> "neutral", cls |-> newClass])

(* The tiers a breakpoint inherits from, narrowest first. *)
CascadeTiers(breakpoint) ==
    IF breakpoint = "mobile" THEN <<"mobile", "tablet", "desktop">>
    ELSE IF breakpoint = "tablet" THEN <<"tablet", "desktop">>
    ELSE <<"desktop">>

NoToken == [bp |-> "desktop", st |-> "neutral", cls |-> Null]

FirstToken(classes, property, breakpoint, uiState) ==
    LET hit(t) == t.bp = breakpoint /\ t.st = uiState
                  /\ getConflictingClassPattern(property, t.cls)
        hits == SelectSeq(classes, hit)
    IN  IF hits = <<>> THEN NoToken ELSE hits[1]

(* cascadeLookup: at each tier the state-specific token, then the neutral
   one; then the next broader tier *)
RECURSIVE LookupTiers(_, _, _, _)
LookupTiers(classes, property, tiers, uiState) ==
    IF tiers = <<>> THEN NoToken
    ELSE LET own == FirstToken(classes, property, Head(tiers), uiState)
             neutral == FirstToken(classes, property, Head(tiers), "neutral")
         IN  IF own.cls # Null THEN own
             ELSE IF neutral.cls # Null THEN neutral
             ELSE LookupTiers(classes, property, Tail(tiers), uiState)

getInheritedValue(classes, property, breakpoint, uiState) ==
    LookupTiers(classes, property, CascadeTiers(breakpoint), uiState)

----------------------------------------------------------------------------
(* Reverse value decoder                                                   *)

noSplitProperties == {"position", "display", "textTransform", "textDecoration"}

namedMappings ==
    [fontWeight |-> [bold |-> "700"],
     fontSize |-> [xl |-> "1.25rem", 3xl |-> "1.875rem"]]

mapClassToDesignValue(cleanClass, property) ==
    IF property \in noSplitProperties THEN cleanClass
    ELSE LET parts == SplitDash(cleanClass)
         IN  IF Len(parts) < 2 THEN Undefined
             ELSE LET value == JoinDash(Tail(parts))
                  IN  IF property \in DOMAIN namedMappings
                         /\ value \in DOMAIN namedMappings[property]
                      THEN namedMappings[property][value]
                      ELSE value

----------------------------------------------------------------------------
(* Layers, text styles and patches                                         *)

Tok(breakpoint, uiState, cls) == [bp |-> breakpoint, st |-> uiState, cls |-> cls]

(* DEFAULT_TEXT_STYLES of @/lib/text-format-utils *)
DEFAULT_TEXT_STYLES ==
    [k \in {"bold"} |-> [design |-> EmptyObj, classes |-> <<Tok("desktop", "neutral", "font-bold")>>]]

NullLayer ==
    [id |-> NullId, design |-> EmptyObj, classes |-> <<>>, textStyles |-> <<>>,
     styleId |-> FALSE, styleOverrides |-> <<>>, variables |-> "v0"]

IsNull(l) == l.id = NullId

(* getTextStyle(textStyles, key): the element's own style, else the default *)
getTextStyle(textStyles, key) ==
    IF textStyles # <<>> /\ key \in DOMAIN textStyles[1] THEN <<textStyles[1][key]>>
    ELSE IF key \in DOMAIN DEFAULT_TEXT_STYLES THEN <<DEFAULT_TEXT_STYLES[key]>>
    ELSE <<>>

(* updateStyledLayer of @/lib/layer-style-utils: applies the changes and,
   for a layer with a shared style, records them as overrides *)
updateStyledLayer(l, design, classes) ==
    [l EXCEPT !.design = design, !.classes = classes,
              !.styleOverrides = IF l.styleId
                                 THEN <<[design |-> design, classes |-> classes]>>
                                 ELSE l.styleOverrides]

(* A merge that forgets the spread of categoryData *)
MergeCategoryNoSpread(categoryData, property, value) ==
    IF Falsy(value) THEN [k \in {"isActive"} |-> "true"]
    ELSE [k \in {property, "isActive"} |-> IF k = "isActive" THEN "true" ELSE value]

(* { ...categoryData, [property]: value, isActive: true } and the delete of
   a falsy value *)
MergeCategory(categoryData, property, value) ==
    LET merged == [k \in DOMAIN categoryData \cup {property, "isActive"} |->
                      IF k = "isActive" THEN "true"
                      ELSE IF k = property THEN value
                      ELSE categoryData[k]]
    IN  IF Falsy(value)
        THEN [k \in DOMAIN merged \ {property} |-> merged[k]]
        ELSE merged

MergeDesign(design, category, property, value) ==
    LET categoryData == IF category \in DOMAIN design THEN design[category] ELSE EmptyObj
    IN  [c \in DOMAIN design \cup {category} |->
            IF c = category THEN MergeCategory(categoryData, property, value)
            ELSE design[c]]

NewClass(category, property, value) ==
    IF Falsy(value) THEN Null ELSE propertyToClass(category, property, value)

----------------------------------------------------------------------------
(* Write paths, as functions of the cached layer and the render's props.   *)
(* Each returns the new cached layer and the fields given to               *)
(* onLayerUpdate.                                                          *)

(* updateDesignProperty, text style mode *)
TextStyleWrite(cur, key, category, property, value, breakpoint, uiState) ==
    LET currentTextStyles == IF cur.textStyles # <<>> THEN cur.textStyles[1]
                             ELSE DEFAULT_TEXT_STYLES
        currentTextStyle == IF key \in DOMAIN currentTextStyles
                            THEN currentTextStyles[key]
                            ELSE [design |-> EmptyObj, classes |-> <<>>]
        updatedDesign == MergeDesign(currentTextStyle.design, category, property, value)
        updatedClasses == setBreakpointClass(currentTextStyle.classes, property,
                              NewClass(category, property, value), breakpoint, uiState)
        updatedTextStyle == [design |-> updatedDesign, classes |-> updatedClasses]
        textStylesUpdate == [k \in DOMAIN currentTextStyles \cup {key} |->
                                IF k = key THEN updatedTextStyle ELSE currentTextStyles[k]]
    IN  [layer |-> [cur EXCEPT !.textStyles = <<textStylesUpdate>>],
         updates |-> [textStyles |-> <<textStylesUpdate>>]]

(* A write that adds the new token without asking setBreakpointClass to
   replace the one of the same triple. *)
ElementWriteAppend(cur, category, property, value, breakpoint, uiState) ==
    LET updatedDesign == MergeDesign(cur.design, category, property, value)
        newClass == NewClass(category, property, value)
        updatedClasses == IF newClass = Null THEN cur.classes
                          ELSE Append(cur.classes, Tok(breakpoint, uiState, newClass))
    IN  [layer |-> [cur EXCEPT !.design = updatedDesign, !.classes = updatedClasses],
         updates |-> [design |-> updatedDesign, classes |-> updatedClasses]]

(* A write that hands the whole styled layer to onLayerUpdate *)
ElementWriteFullLayer(cur, category, property, value, breakpoint, uiState) ==
    LET updatedDesign == MergeDesign(cur.design, category, property, value)
        updatedClasses == setBreakpointClass(cur.classes, property,
                              NewClass(category, property, value), breakpoint, uiState)
        styledLayer == updateStyledLayer(cur, updatedDesign, updatedClasses)
    IN  [layer |-> styledLayer, updates |-> styledLayer]

(* updateDesignProperty, normal mode *)
ElementWrite(cur, category, property, value, breakpoint, uiState) ==
    LET updatedDesign == MergeDesign(cur.design, category, property, value)
        updatedClasses == setBreakpointClass(cur.classes, property,
                              NewClass(category, property, value), breakpoint, uiState)
        styledLayer == updateStyledLayer(cur, updatedDesign, updatedClasses)
        changed == styledLayer.styleOverrides # cur.styleOverrides
    IN  [layer |-> [cur EXCEPT !.design = updatedDesign, !.classes = updatedClasses,
                               !.styleOverrides = IF changed THEN styledLayer.styleOverrides
                                                  ELSE cur.styleOverrides],
         updates |-> IF changed
                     THEN [design |-> styledLayer.design, classes |-> styledLayer.classes,
                           styleOverrides |-> styledLayer.styleOverrides]
                     ELSE [design |-> styledLayer.design, classes |-> styledLayer.classes]]

(* The style key a single write lands on; `applied` is what
   ensureDynamicStyleApplied() returns when it is called. *)
EffectiveTextStyleKey(editing, hasSelection, textStyleKey, applied) ==
    IF editing
    THEN IF hasSelection
         THEN (IF applied # Null THEN applied ELSE textStyleKey)
         ELSE IF textStyleKey = Null
              THEN (IF applied # Null THEN applied ELSE textStyleKey)
              ELSE textStyleKey
    ELSE textStyleKey

PropertyWrite(cur, effectiveKey, category, property, value, breakpoint, uiState) ==
    IF effectiveKey # Null
    THEN TextStyleWrite(cur, effectiveKey, category, property, value, breakpoint, uiState)
    ELSE ElementWrite(cur, category, property, value, breakpoint, uiState)

(* updateDesignProperties: one running design and one running class list *)
RECURSIVE BatchFold(_, _, _, _, _)
BatchFold(design, classes, updates, breakpoint, uiState) ==
    IF updates = <<>> THEN [design |-> design, classes |-> classes]
    ELSE LET u == Head(updates)
         IN  BatchFold(MergeDesign(design, u.category, u.property, u.value),
                       setBreakpointClass(classes, u.property,
                           NewClass(u.category, u.property, u.value), breakpoint, uiState),
                       Tail(updates), breakpoint, uiState)

(* A batch that resolves the text style target as a single write does *)
BatchWriteToTarget(cur, updates, breakpoint, uiState) ==
    LET r == BatchFold(cur.design, cur.classes, updates, breakpoint, uiState)
        u == updates[Len(updates)]
    IN  IF activeTextStyleKey # Null /\ updates # <<>>
        THEN TextStyleWrite(cur, activeTextStyleKey, u.category, u.property, u.value,
                            breakpoint, uiState)
        ELSE [layer |-> [cur EXCEPT !.design = r.design, !.classes = r.classes],
              updates |-> [design |-> r.design, classes |-> r.classes]]

BatchWrite(cur, updates, breakpoint, uiState) ==
    LET r == BatchFold(cur.design, cur.classes, updates, breakpoint, uiState)
    IN  [layer |-> [cur EXCEPT !.design = r.design, !.classes = r.classes],
         updates |-> [design |-> r.design, classes |-> r.classes]]

(* resetDesignCategory: the tokens of every property of the category go,
   then the category itself *)
RECURSIVE RemoveAll(_, _)
RemoveAll(classes, properties) ==
    IF properties = {} THEN classes
    ELSE LET p == CHOOSE x \in properties : TRUE
         IN  RemoveAll(replaceConflictingClasses(classes, p, Null), properties \ {p})

(* A reset that clears the tokens of the active breakpoint and state only *)
RECURSIVE RemoveAtTriple(_, _)
RemoveAtTriple(classes, properties) ==
    IF properties = {} THEN classes
    ELSE LET p == CHOOSE x \in properties : TRUE
         IN  RemoveAtTriple(setBreakpointClass(classes, p, Null, activeBreakpoint,
                                               activeUIState), properties \ {p})

ResetWriteActiveTriple(cur, category) ==
    LET properties == DOMAIN cur.design[category] \ {"isActive"}
        currentClasses == RemoveAtTriple(cur.classes, properties)
        updatedDesign == [c \in DOMAIN cur.design \ {category} |-> cur.design[c]]
    IN  [layer |-> [cur EXCEPT !.design = updatedDesign, !.classes = currentClasses],
         updates |-> [design |-> updatedDesign, classes |-> currentClasses]]

ResetWrite(cur, category) ==
    LET properties == DOMAIN cur.design[category] \ {"isActive"}
        currentClasses == RemoveAll(cur.classes, properties)
        updatedDesign == [c \in DOMAIN cur.design \ {category} |-> cur.design[c]]
    IN  [layer |-> [cur EXCEPT !.design = updatedDesign, !.classes = currentClasses],
         updates |-> [design |-> updatedDesign, classes |-> currentClasses]]

(* syncClassesToDesign *)
SyncWrite(cur, classes) ==
    [layer |-> [cur EXCEPT !.classes = classes], updates |-> [classes |-> classes]]

(* The caller's applyPatch: the fields present are written, the others kept. *)
ApplyPatch(l, updates) ==
    [f \in DOMAIN l |-> IF f \in DOMAIN updates THEN updates[f] ELSE l[f]]

----------------------------------------------------------------------------
(* Cascade read path                                                       *)

(* A read that looks at the base tokens only, whatever the active
   breakpoint and state *)
ReadClassesBaseOnly(design, classes, category, property, breakpoint, uiState) ==
    IF classes = <<>>
    THEN IF category \notin DOMAIN design THEN Undefined
         ELSE IF property \in DOMAIN design[category] THEN design[category][property]
         ELSE Undefined
    ELSE LET inheritedClass == getInheritedValue(classes, property, "desktop", "neutral")
         IN  IF inheritedClass.cls = Null THEN Undefined
             ELSE mapClassToDesignValue(inheritedClass.cls, property)

(* A read that falls back to the design object when no token resolves *)
ReadClassesDesignFallback(design, classes, category, property, breakpoint, uiState) ==
    LET inheritedClass == getInheritedValue(classes, property, breakpoint, uiState)
    IN  IF classes = <<>> \/ inheritedClass.cls = Null
        THEN IF category \notin DOMAIN design THEN Undefined
             ELSE IF property \in DOMAIN design[category] THEN design[category][property]
             ELSE Undefined
        ELSE mapClassToDesignValue(inheritedClass.cls, property)

ReadClasses(design, classes, category, property, breakpoint, uiState) ==
    IF classes = <<>>
    THEN IF category \notin DOMAIN design THEN Undefined
         ELSE IF property \in DOMAIN design[category] THEN design[category][property]
         ELSE Undefined
    ELSE LET inheritedClass == getInheritedValue(classes, property, breakpoint, uiState)
         IN  IF inheritedClass.cls = Null THEN Undefined
             ELSE mapClassToDesignValue(inheritedClass.cls, property)

(* getDesignProperty as a function of the render's props *)
ReadProperty(l, textStyleKey, category, property, breakpoint, uiState) ==
    IF IsNull(l) THEN Undefined
    ELSE IF textStyleKey # Null
    THEN LET textStyle == getTextStyle(l.textStyles, textStyleKey)
         IN  IF textStyle = <<>> THEN Undefined
             ELSE ReadClasses(textStyle[1].design, textStyle[1].classes,
                              category, property, breakpoint, uiState)
    ELSE ReadClasses(l.design, l.classes, category, property, breakpoint, uiState)

(* getDesignProperty of the latest render: it closes over the `layer` prop *)
getDesignProperty(category, property) ==
    ReadProperty(layer, activeTextStyleKey, category, property,
                 activeBreakpoint, activeUIState)

----------------------------------------------------------------------------
(* Debounce scheduler: lodash.debounce(fn, 150), trailing edge, one per    *)
(* property name.  A pending call is a one-element sequence holding the    *)
(* arguments of the latest call; the remaining fields are history used to  *)
(* state the properties: the number of calls coalesced, the target and     *)
(* style key at the latest call, whether the target was switched since,    *)
(* and the number of patches emitted before the latest call.               *)

Idle == <<>>

(* A debounce with one timer per (category, property): a call that names
   another category is queued behind the pending one. *)
DebounceCallPerCategory(entry, category, property, value) ==
    LET call == [category |-> category, property |-> property, value |-> value,
                 calls |-> IF entry = Idle THEN 1 ELSE entry[1].calls + 1,
                 target |-> layer.id, key |-> activeTextStyleKey,
                 switched |-> FALSE, at |-> emitted]
    IN  IF entry # Idle /\ entry[1].category # category
        THEN <<entry[1], call>>
        ELSE <<call>>

(* A debounce that keeps the arguments of the first call of a burst. *)
DebounceCallKeepFirst(entry, category, property, value) ==
    IF entry = Idle
    THEN <<[category |-> category, property |-> property, value |-> value,
            calls |-> 1, target |-> layer.id, key |-> activeTextStyleKey,
            switched |-> FALSE, at |-> emitted]>>
    ELSE <<[entry[1] EXCEPT !.calls = @ + 1]>>

(* fn(category, prop, value): restart the timer, keep the latest arguments *)
DebounceCall(entry, category, property, value) ==
    <<[category |-> category, property |-> property, value |-> value,
       calls |-> IF entry = Idle THEN 1 ELSE entry[1].calls + 1,
       target |-> layer.id, key |-> activeTextStyleKey,
       switched |-> FALSE, at |-> emitted]>>

(* An effect that leaves the pending calls alone. *)
CancelNone(map) == map

(* fn.cancel() on every entry of the map *)
CancelAll(map) == [p \in DOMAIN map |-> Idle]

(* A render with another element: the pending calls were made for the
   element that is no longer the target. *)
MarkSwitched(map) ==
    [p \in DOMAIN map |->
        IF map[p] = Idle THEN Idle ELSE <<[map[p][1] EXCEPT !.switched = TRUE]>>]

----------------------------------------------------------------------------
(* The state machine                                                       *)

LayerA ==
    [id |-> "A",
     design |-> [c \in {"typography"} |->
                    [k \in {"fontSize", "isActive"} |-> IF k = "isActive" THEN "true" ELSE "xl"]],
     classes |-> <<Tok("desktop", "neutral", "text-xl")>>,
     textStyles |-> <<>>, styleId |-> TRUE, styleOverrides |-> <<>>, variables |-> "v0"]

Obj1(k, v) == [x \in {k} |-> v]
Active(property, value) ==
    [k \in {property, "isActive"} |-> IF k = "isActive" THEN "true" ELSE value]

(* Elements the caller may hand to the hook as element A: never styled,
   styled at several breakpoints and states, a design without tokens, a
   category holding only its active flag, an own text style. *)
StartLayers ==
    { LayerA,
      [LayerA EXCEPT !.design = EmptyObj, !.classes = <<>>, !.styleId = FALSE],
      [LayerA EXCEPT !.design = [c \in Categories |->
                                    IF c = "typography" THEN Active("fontSize", "3xl")
                                    ELSE Active("width", "full")],
                     !.classes = <<Tok("desktop", "neutral", "text-xl"),
                                   Tok("desktop", "neutral", "w-full"),
                                   Tok("mobile", "hover", "text-3xl")>>,
                     !.styleId = FALSE],
      [LayerA EXCEPT !.classes = <<>>, !.styleId = FALSE],
      [LayerA EXCEPT !.design = Obj1("sizing", Obj1("isActive", "true")),
                     !.classes = <<Tok("mobile", "neutral", "w-1/2")>>, !.styleId = FALSE],
      [LayerA EXCEPT !.textStyles =
                        <<Obj1("bold", [design |-> Obj1("typography", Active("fontSize", "xl")),
                                        classes |-> <<Tok("desktop", "neutral", "text-xl"),
                                                      Tok("mobile", "neutral", "text-3xl")>>])>>,
                     !.styleId = FALSE] }

LayerB ==
    [id |-> "B", design |-> EmptyObj, classes |-> <<>>, textStyles |-> <<>>,
     styleId |-> FALSE, styleOverrides |-> <<>>, variables |-> "v0"]

(* History of the handler that ran last: its name, the property and value
   it was given, the patches it handed to onLayerUpdate and, for a timer,
   the history of the pending call it ran. *)
NoOp == [op |-> "init", property |-> Null, value |-> Null, patches |-> <<>>,
         calls |-> 0, target |-> NullId, switched |-> FALSE, rekeyed |-> FALSE,
         at |-> 0]

(* The state after the first render with element `a` as the target and
   the given props *)
InitProps(a, breakpoint, uiState, textStyleKey) ==
    /\ store = [i \in Ids |-> IF i = "A" THEN a ELSE LayerB]
    /\ inflight = <<>>
    /\ emitted = 0
    /\ layer = a
    /\ activeBreakpoint = breakpoint
    /\ activeUIState = uiState
    /\ activeTextStyleKey = textStyleKey
    /\ isTextEditing = FALSE
    /\ selection = FALSE
    /\ layerRef = a
    /\ currentLayerIdRef = "A"
    /\ effectPending = FALSE
    /\ debounced = [p \in Props |-> Idle]
    /\ mounted = TRUE
    /\ renders = 0
    /\ scheduled = 0
    /\ last = NoOp

(* The first render with the default props *)
InitWith(a) == InitProps(a, "desktop", "neutral", Null)

(* The caller applies each patch inside onLayerUpdate (a synchronous store) *)
Init == InitWith(LayerA) /\ applies = "now"

(* The caller applies each patch some time after onLayerUpdate returned *)
InitLater == InitWith(LayerA) /\ applies = "later"

renderProps == <<layer, activeBreakpoint, activeUIState, activeTextStyleKey, isTextEditing>>
hookRefs == <<currentLayerIdRef, effectPending, mounted, renders, scheduled>>

(* A handler's effect on the cache and on the caller: `w` is a write path's
   result; with a null cached layer every write returns at once. *)
Commit(w, how) ==
    /\ layerRef' = w.layer
    /\ IF applies = "now"
       THEN /\ store' = [store EXCEPT ![layerRef.id] = ApplyPatch(store[layerRef.id], w.updates)]
            /\ inflight' = inflight
       ELSE /\ inflight' = Append(inflight, [id |-> layerRef.id, updates |-> w.updates])
            /\ store' = store
    /\ emitted' = emitted + 1
    /\ last' = [how EXCEPT !.patches = <<[id |-> layerRef.id, updates |-> w.updates]>>]

(* An early return that still counts as a patch handed to the caller *)
SkipCounted(how) ==
    /\ UNCHANGED <<layerRef, inflight, store>>
    /\ emitted' = emitted + 1
    /\ last' = how

Skip(how) ==
    /\ UNCHANGED <<layerRef, inflight, emitted, store>>
    /\ last' = how

(* What ensureDynamicStyleApplied() may return *)
AppliedKeys == {Null, "dts"}

(* The body of updateDesignProperty, run by a direct call or by a timer *)
RunUpdateDesignProperty(category, property, value, how) ==
    IF IsNull(layerRef) THEN Skip(how)
    ELSE \E applied \in AppliedKeys :
            Commit(PropertyWrite(layerRef,
                       EffectiveTextStyleKey(isTextEditing, selection,
                                             activeTextStyleKey, applied),
                       category, property, value, activeBreakpoint, activeUIState), how)

(* An event handler of the component calls the hook's functions; React has
   flushed the effects of the last commit before it runs. *)
UserTurn == mounted /\ ~effectPending /\ emitted < MaxPatches

UpdateDesignProperty(category, property, value) ==
    /\ UserTurn
    /\ RunUpdateDesignProperty(category, property, value,
           [NoOp EXCEPT !.op = "update", !.property = property, !.value = value])
    /\ UNCHANGED <<applies, renderProps, selection, hookRefs, debounced>>

(* A batch whose entries all name one (category, property) *)
SameKey(updates) ==
    /\ updates # <<>>
    /\ \A i \in 1..Len(updates) :
          /\ updates[i].category = updates[1].category
          /\ updates[i].property = updates[1].property

UpdateDesignProperties(updates) ==
    /\ UserTurn
    /\ LET how == [NoOp EXCEPT !.op = "batch", !.calls = Len(updates),
                               !.property = IF SameKey(updates) THEN updates[1].property
                                            ELSE Null,
                               !.value = IF SameKey(updates) THEN updates[Len(updates)].value
                                         ELSE Null]
       IN  IF IsNull(layerRef) THEN Skip(how)
           ELSE Commit(BatchWrite(layerRef, updates, activeBreakpoint, activeUIState), how)
    /\ UNCHANGED <<applies, renderProps, selection, hookRefs, debounced>>

ResetDesignCategory(category) ==
    /\ UserTurn
    /\ LET how == [NoOp EXCEPT !.op = "reset", !.property = category]
       IN  IF IsNull(layerRef) \/ category \notin DOMAIN layerRef.design THEN Skip(how)
           ELSE Commit(ResetWrite(layerRef, category), how)
    /\ UNCHANGED <<applies, renderProps, selection, hookRefs, debounced>>

SyncClassesToDesign(classes) ==
    /\ UserTurn
    /\ LET how == [NoOp EXCEPT !.op = "sync"]
       IN  IF IsNull(layerRef) THEN Skip(how) ELSE Commit(SyncWrite(layerRef, classes), how)
    /\ UNCHANGED <<applies, renderProps, selection, hookRefs, debounced>>

(* debouncedUpdateDesignProperty: getDebouncedFn(property)(category, property, value) *)
DebouncedUpdateDesignProperty(category, property, value) ==
    /\ mounted /\ ~effectPending /\ scheduled < MaxCalls
    /\ scheduled' = scheduled + 1
    /\ debounced' = [debounced EXCEPT
                        ![property] = DebounceCall(debounced[property], category, property, value)]
    /\ last' = [NoOp EXCEPT !.op = "schedule", !.property = property, !.value = value,
                            !.calls = debounced'[property][1].calls]
    /\ UNCHANGED <<store, applies, inflight, emitted, renderProps, selection, layerRef,
                   currentLayerIdRef, effectPending, mounted, renders>>

(* A timer whose callback captured the updateDesignProperty of the first
   render instead of going through updateDesignPropertyRef *)
TimerFiresFirstRender(property) ==
    /\ mounted /\ emitted < MaxPatches
    /\ debounced[property] # Idle
    /\ LET e == debounced[property][1]
           how == [NoOp EXCEPT !.op = "fire", !.property = property, !.value = e.value,
                               !.calls = e.calls, !.target = e.target,
                               !.switched = e.switched,
                               !.rekeyed = (e.key # activeTextStyleKey), !.at = e.at]
       IN  IF IsNull(layerRef) THEN Skip(how)
           ELSE Commit(PropertyWrite(layerRef, Null, e.category, e.property, e.value,
                                     "desktop", "neutral"), how)
    /\ debounced' = [debounced EXCEPT ![property] = Idle]
    /\ UNCHANGED <<applies, renderProps, selection, hookRefs>>

(* The timer of one property expires: the trailing call runs
   updateDesignPropertyRef.current with the arguments of the latest call. *)
TimerFires(property) ==
    /\ mounted /\ emitted < MaxPatches
    /\ debounced[property] # Idle
    /\ LET e == debounced[property][1]
       IN  RunUpdateDesignProperty(e.category, e.property, e.value,
               [NoOp EXCEPT !.op = "fire", !.property = property, !.value = e.value,
                            !.calls = e.calls, !.target = e.target,
                            !.switched = e.switched,
                            !.rekeyed = (e.key # activeTextStyleKey), !.at = e.at])
    /\ debounced' = [debounced EXCEPT ![property] = Idle]
    /\ UNCHANGED <<applies, renderProps, selection, hookRefs>>

(* A render of the hook: layerRef.current = layer, the latest
   updateDesignProperty is bound, and the [layer?.id] effect is scheduled
   when the id differs from the previous render's. *)
Render(id, breakpoint, uiState, textStyleKey, editing) ==
    /\ mounted /\ ~effectPending /\ renders < MaxRenders
    /\ renders' = renders + 1
    /\ layer' = IF id = NullId THEN NullLayer ELSE store[id]
    /\ layerRef' = layer'
    /\ activeBreakpoint' = breakpoint
    /\ activeUIState' = uiState
    /\ activeTextStyleKey' = textStyleKey
    /\ isTextEditing' = editing
    /\ effectPending' = (id # layer.id)
    /\ debounced' = IF id # layer.id THEN MarkSwitched(debounced) ELSE debounced
    /\ last' = [NoOp EXCEPT !.op = "render"]
    /\ UNCHANGED <<store, applies, inflight, emitted, selection, currentLayerIdRef, mounted,
                   scheduled>>

(* The effect that cancels the pending calls when the layer changed *)
LayerChangeEffect ==
    /\ mounted /\ effectPending
    /\ IF currentLayerIdRef # layer.id
       THEN /\ debounced' = CancelAll(debounced)
            /\ currentLayerIdRef' = layer.id
       ELSE UNCHANGED <<debounced, currentLayerIdRef>>
    /\ effectPending' = FALSE
    /\ last' = [NoOp EXCEPT !.op = "effect"]
    /\ UNCHANGED <<store, applies, inflight, emitted, renderProps, selection, layerRef, mounted,
                   renders, scheduled>>

(* The cleanup effect on unmount *)
Unmount ==
    /\ mounted
    /\ mounted' = FALSE
    /\ debounced' = CancelAll(debounced)
    /\ effectPending' = FALSE
    /\ last' = [NoOp EXCEPT !.op = "unmount"]
    /\ UNCHANGED <<store, applies, inflight, emitted, renderProps, selection, layerRef,
                   currentLayerIdRef, renders, scheduled>>

(* The editor store: the selection changes without a render of the hook *)
SetSelection(hasSelection) ==
    /\ mounted /\ isTextEditing /\ selection # hasSelection
    /\ selection' = hasSelection
    /\ last' = [NoOp EXCEPT !.op = "select"]
    /\ UNCHANGED <<store, applies, inflight, emitted, renderProps, layerRef, hookRefs, debounced>>

(* Another collaborator of the element graph (onGradientSync) writes a
   field the hook does not own; the hook sees it at its next render. *)
CollaboratorWrite(value) ==
    /\ mounted /\ ~IsNull(layer)
    /\ store[layer.id].variables # value
    /\ store' = [store EXCEPT ![layer.id].variables = value]
    /\ last' = [NoOp EXCEPT !.op = "collab"]
    /\ UNCHANGED <<applies, inflight, emitted, renderProps, selection, layerRef, hookRefs,
                   debounced>>

(* The caller applies the oldest patch it was given to the element graph *)
Deliver ==
    /\ applies = "later" /\ inflight # <<>>
    /\ LET patch == Head(inflight)
       IN  store' = [store EXCEPT ![patch.id] = ApplyPatch(store[patch.id], patch.updates)]
    /\ inflight' = Tail(inflight)
    /\ last' = [NoOp EXCEPT !.op = "deliver"]
    /\ UNCHANGED <<applies, emitted, renderProps, selection, layerRef, hookRefs, debounced>>

----------------------------------------------------------------------------
(* Inputs                                                                  *)

Entries ==
    UNION { { [category |-> CategoryOf(p), property |-> p, value |-> v] :
                v \in WriteValues(p) } : p \in Props }

RECURSIVE SeqsUpTo(_, _)
SeqsUpTo(S, n) ==
    IF n = 0 THEN {<<>>}
    ELSE LET shorter == SeqsUpTo(S, n - 1)
         IN  shorter \cup { Append(q, x) : q \in shorter, x \in S }

(* Batches hold up to MaxBatch entries; entries that remove the width are
   left to the single write and to the reset. *)
Batches == SeqsUpTo({e \in Entries : e.property = "fontSize" \/ e.value # Null}, MaxBatch)

SyncInputs ==
    { <<>>,
      <<Tok("desktop", "neutral", "w-full"), Tok("mobile", "hover", "w-1/2")>>,
      <<Tok("desktop", "neutral", "text-xl"), Tok("desktop", "neutral", "text-3xl")>> }

ActiveBreakpoints == {"desktop", "mobile"}

SelectLayer(id) ==
    Render(id, activeBreakpoint, activeUIState, activeTextStyleKey, isTextEditing)
Rerender ==
    Render(layer.id, activeBreakpoint, activeUIState, activeTextStyleKey, isTextEditing)
SetBreakpoint(breakpoint) ==
    Render(layer.id, breakpoint, activeUIState, activeTextStyleKey, isTextEditing)
SetUIState(uiState) ==
    Render(layer.id, activeBreakpoint, uiState, activeTextStyleKey, isTextEditing)
SetTextStyleKey(textStyleKey) ==
    Render(layer.id, activeBreakpoint, activeUIState, textStyleKey, isTextEditing)
SetEditing(editing) ==
    Render(layer.id, activeBreakpoint, activeUIState, activeTextStyleKey, editing)

(* The four synchronous write operations with every input of the model *)
SyncWrites ==
    \/ \E p \in Props : \E v \in WriteValues(p) \cup {""} : UpdateDesignProperty(CategoryOf(p), p, v)
    \/ \E b \in Batches : UpdateDesignProperties(b)
    \/ \E c \in Categories : ResetDesignCategory(c)
    \/ \E cl \in SyncInputs : SyncClassesToDesign(cl)

DeferredWrites ==
    \/ \E p \in Props : \E v \in WriteValues(p) : DebouncedUpdateDesignProperty(CategoryOf(p), p, v)
    \/ \E p \in Props : TimerFires(p)

(* Deferred writes while the target changes: another element, no element,
   a text style of the element.  The caller applies each patch at once. *)
Next ==
    \/ DeferredWrites
    \/ \E i \in (Ids \cup {NullId}) \ {layer.id} : SelectLayer(i)
    \/ \E k \in (TextStyleKeys \cup {Null}) \ {activeTextStyleKey} : SetTextStyleKey(k)
    \/ LayerChangeEffect
    \/ Unmount

Spec == Init /\ [][Next]_vars

(* One unchanged target at one breakpoint and state: writes, a deferred
   write, re-renders, and a caller that applies the patches later. *)
NextCache ==
    \/ SyncWrites
    \/ \E v \in WriteValues("width") : DebouncedUpdateDesignProperty("sizing", "width", v)
    \/ TimerFires("width")
    \/ Rerender
    \/ Deliver

SpecCache == InitLater /\ [][NextCache]_vars

(* Up to MaxWrites writes to one element and its text styles, from every
   start element, at changing breakpoints, UI states and style keys. *)
TokensTurn == emitted < MaxWrites

TokenRenders ==
    \/ \E b \in ActiveBreakpoints \ {activeBreakpoint} : SetBreakpoint(b)
    \/ \E s \in UIStates \ {activeUIState} : SetUIState(s)
    \/ \E k \in (TextStyleKeys \cup {Null}) \ {activeTextStyleKey} : SetTextStyleKey(k)

NextTokens ==
    \/ TokensTurn /\ SyncWrites
    \/ TokenRenders

InitTokens == applies = "now" /\ \E a \in StartLayers : InitWith(a)

SpecTokens == InitTokens /\ [][NextTokens]_vars

(* Single, batch and deferred writes and category resets, from a first
   render with any props *)
NextWrites ==
    \/ TokensTurn /\ \E p \in Props : \E v \in WriteValues(p) \cup {""} : UpdateDesignProperty(CategoryOf(p), p, v)
    \/ TokensTurn /\ \E b \in Batches : UpdateDesignProperties(b)
    \/ TokensTurn /\ \E c \in Categories : ResetDesignCategory(c)
    \/ scheduled < MaxWrites
       /\ \E v \in {"3xl", Null} : DebouncedUpdateDesignProperty("typography", "fontSize", v)
    \/ TokensTurn /\ TimerFires("fontSize")

InitWrites ==
    /\ applies = "now"
    /\ \E a \in StartLayers : \E b \in ActiveBreakpoints : \E st \in UIStates :
          \E k \in TextStyleKeys \cup {Null} : InitProps(a, b, st, k)

SpecWrites == InitWrites /\ [][NextWrites]_vars

(* An in-place text editing session: it starts and ends, the selection
   comes and goes, a style key is targeted, and the font size is written at
   once or behind its timer. *)
NextEditing ==
    \/ \E e \in BOOLEAN \ {isTextEditing} : SetEditing(e)
    \/ \E h \in BOOLEAN : SetSelection(h)
    \/ \E k \in (TextStyleKeys \cup {Null}) \ {activeTextStyleKey} : SetTextStyleKey(k)
    \/ \E v \in WriteValues("fontSize") : UpdateDesignProperty("typography", "fontSize", v)
    \/ \E v \in {"3xl", Null} : DebouncedUpdateDesignProperty("typography", "fontSize", v)
    \/ TimerFires("fontSize")

SpecEditing == Init /\ [][NextEditing]_vars

(* The font size is written at once or behind its timer, on the element
   or on its bold style, while another collaborator writes its own field. *)
NextFields ==
    \/ \E v \in WriteValues("fontSize") : UpdateDesignProperty("typography", "fontSize", v)
    \/ \E v \in {"3xl", Null} : DebouncedUpdateDesignProperty("typography", "fontSize", v)
    \/ TimerFires("fontSize")
    \/ CollaboratorWrite("v1")
    \/ Rerender
    \/ \E k \in {Null, "bold"} \ {activeTextStyleKey} : SetTextStyleKey(k)

SpecFields == Init /\ [][NextFields]_vars

(* Deferred writes to one unchanged target, no switch and no teardown.
   A pending timer expires once its 150 ms have passed: the event loop runs
   every due timer, which is weak fairness of TimerFires. *)
NextLive ==
    \/ scheduled < MaxPatches
       /\ \E p \in Props : \E v \in WriteValues(p) :
             DebouncedUpdateDesignProperty(CategoryOf(p), p, v)
    \/ \E p \in Props : TimerFires(p)
    \/ Rerender

SpecLive ==
    Init /\ [][NextLive]_vars /\ \A p \in Props : WF_vars(TimerFires(p))

(* An element whose categories hold more than the property a write names:
   a font weight next to the font size, on the element and on its own
   `bold` text style, and a width. *)
LayerWithSiblings ==
    LET typography(size) ==
            [k \in {"fontSize", "fontWeight", "isActive"} |->
                IF k = "isActive" THEN "true" ELSE IF k = "fontSize" THEN size ELSE "bold"]
    IN  [LayerA EXCEPT
            !.design = [c \in Categories |->
                           IF c = "typography" THEN typography("xl")
                           ELSE Active("width", "full")],
            !.classes = <<Tok("desktop", "neutral", "text-xl"),
                          Tok("desktop", "neutral", "font-bold"),
                          Tok("desktop", "neutral", "w-full")>>,
            !.textStyles =
                <<Obj1("bold", [design |-> Obj1("typography", typography("3xl")),
                                classes |-> <<Tok("desktop", "neutral", "text-3xl"),
                                              Tok("desktop", "neutral", "font-bold")>>])>>]

(* Single, batch and deferred writes to that element or to its text style *)
NextMerge ==
    \/ TokensTurn /\ \E p \in Props : \E v \in WriteValues(p) \cup {""} :
                         UpdateDesignProperty(CategoryOf(p), p, v)
    \/ TokensTurn /\ \E b \in Batches : UpdateDesignProperties(b)
    \/ scheduled < MaxWrites
       /\ \E v \in {"3xl", Null} : DebouncedUpdateDesignProperty("typography", "fontSize", v)
    \/ TokensTurn /\ TimerFires("fontSize")
    \/ \E k \in {Null, "bold"} \ {activeTextStyleKey} : SetTextStyleKey(k)

SpecMerge ==
    /\ applies = "now" /\ InitWith(LayerWithSiblings)
    /\ [][NextMerge]_vars

(* The selection goes away and comes back: every operation is called, and a
   timer may expire, while the target is null. *)
NextNull ==
    \/ TokensTurn /\ SyncWrites
    \/ \E v \in ValuesOf("fontSize") : DebouncedUpdateDesignProperty("typography", "fontSize", v)
    \/ TokensTurn /\ TimerFires("fontSize")
    \/ \E i \in {NullId, "A"} \ {layer.id} : SelectLayer(i)
    \/ LayerChangeEffect

SpecNull == Init /\ [][NextNull]_vars

(* A deferred write is requested at the first render's breakpoint and
   state; the breakpoint, the state and the style key change while its
   timer is pending. *)
NextProps ==
    \/ /\ activeBreakpoint = "desktop" /\ activeUIState = "neutral"
       /\ scheduled < MaxWrites
       /\ \E v \in WriteValues("fontSize") :
             DebouncedUpdateDesignProperty("typography", "fontSize", v)
    \/ TimerFires("fontSize")
    \/ \E b \in ActiveBreakpoints \ {activeBreakpoint} : SetBreakpoint(b)
    \/ \E st \in UIStates \ {activeUIState} : SetUIState(st)
    \/ \E k \in {Null, "bold"} \ {activeTextStyleKey} : SetTextStyleKey(k)

SpecProps == InitTokens /\ [][NextProps]_vars

(* Deferred writes of one property name under two categories: the first
   request names `typography`, every later one names `sizing`; the font
   size is requested under its own category. *)
NextKeyed ==
    \/ scheduled = 0
       /\ \E v \in WriteValues("width") : DebouncedUpdateDesignProperty("typography", "width", v)
    \/ scheduled > 0
       /\ \E v \in WriteValues("width") : DebouncedUpdateDesignProperty("sizing", "width", v)
    \/ scheduled > 0
       /\ \E v \in ValuesOf("fontSize") :
             DebouncedUpdateDesignProperty("typography", "fontSize", v)
    \/ \E p \in Props : TimerFires(p)
    \/ Rerender

SpecKeyed == Init /\ [][NextKeyed]_vars

----------------------------------------------------------------------------
(* Properties                                                              *)

(* The patch the last handler handed to onLayerUpdate, if any *)
Emitted == last.patches # <<>>
LastPatch == last.patches[1]
IsWrite(op) == op \in {"update", "batch", "reset", "sync", "fire"}

(* design[category][property], or Undefined *)
DesignValue(design, category, property) ==
    IF category \in DOMAIN design /\ property \in DOMAIN design[category]
    THEN design[category][property]
    ELSE Undefined

(* What a write of `value` leaves in the design object *)
Written(value) == IF Falsy(value) THEN Undefined ELSE value

(* The tokens of one property in a class list, in order *)
TokensOf(classes, property) ==
    LET mine(t) == getConflictingClassPattern(property, t.cls)
    IN  SelectSeq(classes, mine)

(* The design object a patch carries for the target it was computed for:
   the element's, or the one of the text style `key` *)
PatchDesign(updates, key) ==
    IF key = Null THEN updates.design ELSE updates.textStyles[1][key].design

PatchShape(updates, key) ==
    IF key = Null THEN {"design", "classes"} \subseteq DOMAIN updates
    ELSE /\ DOMAIN updates = {"textStyles"}
         /\ updates.textStyles # <<>>
         /\ key \in DOMAIN updates.textStyles[1]

----------------------------------------------------------------------------
(* C1: the optimistic cache holds the result of the most recently requested
   write to the target while that write's patch has not come back as the
   `layer` prop: whenever the newest patch the caller has not applied yet
   is addressed to the cached element, the design and classes of that
   patch (those of the text style, for a text style write) are the cached
   element's. *)
C1_CacheHoldsLatestWrite ==
    (inflight # <<>> /\ inflight[Len(inflight)].id = layerRef.id)
        => LET u == inflight[Len(inflight)].updates
           IN  \A f \in DOMAIN u \cap {"design", "classes", "textStyles"} :
                  layerRef[f] = u[f]

(* C2: a deferred write never reverts a concurrent change: the patch of a
   timer that fires on the element carries, for every other property, the
   design value and the tokens of the newest write that was requested
   after the deferred call was made and is not applied yet. *)
C2_FireKeepsConcurrentWrites ==
    (/\ last.op = "fire" /\ Emitted
     /\ Len(inflight) >= 2
     /\ last.at < emitted - 1
     /\ "design" \in DOMAIN LastPatch.updates)
        => LET mine == LastPatch.updates
               other == inflight[Len(inflight) - 1].updates
           IN  \A q \in Props \ {last.property} :
                  /\ "design" \in DOMAIN other
                        => DesignValue(mine.design, CategoryOf(q), q)
                             = DesignValue(other.design, CategoryOf(q), q)
                  /\ "classes" \in DOMAIN other
                        => TokensOf(mine.classes, q) = TokensOf(other.classes, q)

(* One step of the hook as the debounce contract allows it *)
C3_Step ==
    /\ last'.op = "schedule"
          => /\ emitted' = emitted
             /\ debounced'[last'.property] # Idle
             /\ debounced'[last'.property][1].value = last'.value
             /\ \A q \in Props \ {last'.property} : debounced'[q] = debounced[q]
    /\ (last'.op = "fire" /\ ~last'.switched /\ ~IsNull(layerRef))
          => /\ emitted' = emitted + 1
             /\ Len(last'.patches) = 1
             /\ PatchShape(last'.patches[1].updates, activeTextStyleKey)
             /\ DesignValue(PatchDesign(last'.patches[1].updates, activeTextStyleKey),
                            CategoryOf(last'.property), last'.property)
                   = Written(debounced[last'.property][1].value)
             /\ last'.value = debounced[last'.property][1].value
             /\ debounced'[last'.property] = Idle
             /\ \A q \in Props \ {last'.property} : debounced'[q] = debounced[q]

(* C3: debounce coalescing.  A call of debouncedUpdateDesignProperty emits
   nothing, leaves the property's timer pending with the value of that call
   and leaves the timers of the other properties as they were; a timer that
   fires on the target it was scheduled for emits exactly one patch, which
   carries the value of the latest call, ends idle and leaves the other
   timers as they were. *)
C3_DebounceCoalesces == [][C3_Step]_vars

(* Two calls to one property were coalesced into one patch while a call to
   the other property is still pending. *)
C3_Witness ==
    /\ last.op = "fire" /\ last.calls >= 2 /\ ~last.switched
    /\ Len(last.patches) = 1
    /\ \E q \in Props \ {last.property} : debounced[q] # Idle

(* C4: a deferred write scheduled for element A and fired after the target
   was switched emits no patch addressed to A. *)
C4_NoPatchForOldTarget ==
    (last.op = "fire" /\ last.switched)
        => \A i \in 1..Len(last.patches) : last.patches[i].id # last.target

(* The timer fired after the switch and before the cancelling effect, and
   its patch went to the new target. *)
C4_Witness ==
    /\ last.op = "fire" /\ last.switched /\ last.target = "A"
    /\ Emitted /\ LastPatch.id = "B"

(* C5: after the active element changed, a deferred write scheduled for the
   previous element emits no patch at all. *)
C5_SwitchDropsPending ==
    (last.op = "fire" /\ last.switched) => ~Emitted

(* C6: a deferred write that is pending when the text style key changes
   (element to style, style to element, style to style) emits no patch. *)
C6_StyleSwitchDropsPending ==
    (last.op = "fire" /\ last.rekeyed /\ ~last.switched) => ~Emitted

----------------------------------------------------------------------------
(* The design and classes a write lands on: the element's or a text style's *)
TargetOf(l, key) ==
    IF key = Null THEN [design |-> l.design, classes |-> l.classes]
    ELSE l.textStyles[1][key]

(* C7: a write of a null or empty value deletes design[category][property]
   of the target and every token of the property at every breakpoint and
   state, so that the property then reads undefined at every breakpoint and
   state. *)
C7_RemoveClearsEverywhere ==
    (last.op = "update" /\ Falsy(last.value) /\ Emitted)
        => LET target == TargetOf(layerRef, activeTextStyleKey)
               c == CategoryOf(last.property)
           IN  /\ DesignValue(target.design, c, last.property) = Undefined
               /\ TokensOf(target.classes, last.property) = <<>>
               /\ \A b \in Breakpoints, u \in UIStates :
                     ReadProperty(layerRef, activeTextStyleKey, c, last.property, b, u)
                        = Undefined

(* What a read gives for a value once its token is decoded *)
Decoded(property, value) ==
    IF Falsy(value) THEN Undefined
    ELSE mapClassToDesignValue(propertyToClass(CategoryOf(property), property, value), property)

(* C8: a read issued right after a write on the same target sees the value
   just written (in the form the decoder gives it), or undefined after a
   removal. *)
C8_ReadAfterWrite ==
    (last.op = "update" /\ Emitted)
        => getDesignProperty(CategoryOf(last.property), last.property)
              \in {Written(last.value), Decoded(last.property, last.value)}

----------------------------------------------------------------------------
(* At most one token of a property at each breakpoint and state *)
OnePerTriple(classes) ==
    \A i, j \in 1..Len(classes) :
        (i < j /\ classes[i].bp = classes[j].bp /\ classes[i].st = classes[j].st)
            => SplitDash(classes[i].cls)[1] # SplitDash(classes[j].cls)[1]

StylesOf(l) == IF l.textStyles = <<>> THEN DEFAULT_TEXT_STYLES ELSE l.textStyles[1]

OnePerTripleLayer(l) ==
    /\ OnePerTriple(l.classes)
    /\ \A k \in DOMAIN StylesOf(l) : OnePerTriple(StylesOf(l)[k].classes)

OnePerTriplePatch(updates) ==
    /\ "classes" \in DOMAIN updates => OnePerTriple(updates.classes)
    /\ "textStyles" \in DOMAIN updates
          => \A k \in DOMAIN updates.textStyles[1] :
                OnePerTriple(updates.textStyles[1][k].classes)

C9_Step ==
    (last'.op \in {"update", "batch", "reset", "fire"} /\ OnePerTripleLayer(layerRef))
        => /\ OnePerTripleLayer(layerRef')
           /\ \A i \in 1..Len(last'.patches) : OnePerTriplePatch(last'.patches[i].updates)

(* C9: a class list with at most one token per (property, breakpoint,
   state) keeps that shape through every single, batch and deferred write
   and every category reset, in the cache and in the patch. *)
C9_OneTokenPerTriple == [][C9_Step]_vars

(* A deferred write replaced the token of its triple in a list that holds
   tokens of the same property at other triples. *)
C9_Witness ==
    /\ last.op = "fire" /\ Emitted /\ ~Falsy(last.value)
    /\ activeTextStyleKey = Null
    /\ FirstToken(layer.classes, last.property, activeBreakpoint, activeUIState).cls
          \notin {Null, propertyToClass(CategoryOf(last.property), last.property, last.value)}
    /\ FirstToken(layerRef.classes, last.property, activeBreakpoint, activeUIState).cls
          = propertyToClass(CategoryOf(last.property), last.property, last.value)
    /\ Len(TokensOf(layerRef.classes, last.property)) >= 2
    /\ OnePerTripleLayer(layerRef)

----------------------------------------------------------------------------
(* A batch step compared with the single write of its last entry *)
DesignAndClasses(r) ==
    IF {"design", "classes"} \subseteq DOMAIN r THEN <<r.design, r.classes>> ELSE <<>>

SameAsSingle(updates) ==
    \A applied \in AppliedKeys :
        LET u == updates[Len(updates)]
            key == EffectiveTextStyleKey(isTextEditing, selection, activeTextStyleKey, applied)
            single == PropertyWrite(layerRef, key, u.category, u.property, u.value,
                                    activeBreakpoint, activeUIState)
        IN  /\ DesignAndClasses(layerRef') = DesignAndClasses(single.layer)
            /\ Len(last'.patches) = 1
            /\ DesignAndClasses(last'.patches[1].updates) = DesignAndClasses(single.updates)

C10_Step ==
    \A b \in Batches :
        (SameKey(b) /\ Len(b) >= 2 /\ ~IsNull(layerRef) /\ UpdateDesignProperties(b))
            => SameAsSingle(b)

(* C10: a batch whose entries all name one (category, property) leaves the
   cache and the patch with the design and classes that one
   updateDesignProperty call with the last entry's value would give. *)
C10_BatchEqualsSingle == [][C10_Step]_vars

----------------------------------------------------------------------------
(* The category has no property besides the active flag, or is absent *)
NothingToReset(design, category) ==
    IF category \in DOMAIN design
    THEN DOMAIN design[category] \subseteq {"isActive"}
    ELSE TRUE

C11_Step ==
    (last'.op = "reset" /\ ~IsNull(layerRef) /\ NothingToReset(layerRef.design, last'.property))
        => /\ emitted' = emitted
           /\ last'.patches = <<>>
           /\ layerRef' = layerRef

(* C11: resetDesignCategory emits no patch and leaves the cache as it is
   when the category is absent from the design or holds nothing but the
   isActive flag. *)
C11_ResetNothingIsNoOp == [][C11_Step]_vars

----------------------------------------------------------------------------
(* The tokens of `classes` that belong to none of `properties` *)
TokensOutside(classes, properties) ==
    LET other(t) == \A p \in properties : ~getConflictingClassPattern(p, t.cls)
    IN  SelectSeq(classes, other)

C12_Step ==
    LET c == last'.property
    IN  (last'.op = "reset" /\ ~IsNull(layerRef) /\ ~NothingToReset(layerRef.design, c))
            => /\ emitted' = emitted + 1
               /\ Len(last'.patches) = 1
               /\ LET u == last'.patches[1].updates
                      properties == DOMAIN layerRef.design[c] \ {"isActive"}
                  IN  /\ DOMAIN u = {"design", "classes"}
                      /\ DOMAIN u.design = DOMAIN layerRef.design \ {c}
                      /\ \A d \in DOMAIN u.design : u.design[d] = layerRef.design[d]
                      /\ \A p \in properties : TokensOf(u.classes, p) = <<>>
                      /\ u.classes = TokensOutside(layerRef.classes, properties)
                      /\ layerRef'.design = u.design
                      /\ layerRef'.classes = u.classes

(* C12: resetDesignCategory on a category that has properties emits one
   patch; in it the category is gone from the design, every token of each
   of its properties is gone at every breakpoint and state, and the other
   categories and the tokens of the other properties are as they were. *)
C12_ResetClearsCategory == [][C12_Step]_vars

(* The typography category was reset on an element that held font size
   tokens at two breakpoints and a width; the width is still there. *)
C12_Witness ==
    /\ last.op = "reset" /\ last.property = "typography" /\ Emitted
    /\ Len(TokensOf(layer.classes, "fontSize")) >= 2
    /\ TokensOf(layerRef.classes, "fontSize") = <<>>
    /\ TokensOf(layerRef.classes, "width") # <<>>
    /\ DOMAIN layerRef.design = {"sizing"}

----------------------------------------------------------------------------
(* The style keys a materialization may hand back *)
MaterializedKeys == AppliedKeys \ {Null}

(* Where the ordered rules send a single write: a set of style keys, Null
   standing for the element itself *)
RuleTargets(editing, hasSelection, textStyleKey) ==
    IF editing /\ hasSelection THEN MaterializedKeys
    ELSE IF editing /\ textStyleKey = Null THEN MaterializedKeys
    ELSE {textStyleKey}

C13_Step ==
    (last'.op \in {"update", "fire"} /\ ~IsNull(layerRef))
        => /\ Len(last'.patches) = 1
           /\ \E k \in RuleTargets(isTextEditing, selection, activeTextStyleKey) :
                 LET w == PropertyWrite(layerRef, k, CategoryOf(last'.property),
                                        last'.property, last'.value,
                                        activeBreakpoint, activeUIState)
                 IN  /\ last'.patches[1].updates = w.updates
                     /\ layerRef' = w.layer

(* C13: every single write, direct or fired by a timer, lands where the
   ordered rules say: with a session and a selection on a materialized
   style, with a session, no selection and no key on a materialized style,
   with a session, no selection and a key on that key, without a session on
   the key if any and else on the element. *)
C13_TargetFollowsRules == [][C13_Step]_vars

----------------------------------------------------------------------------
(* The fields a single write may hand over, given the target it landed on *)
NarrowPatch(u, key, before) ==
    IF key = Null
    THEN /\ {"design", "classes"} \subseteq DOMAIN u
         /\ DOMAIN u \subseteq {"design", "classes", "styleOverrides"}
         /\ "styleOverrides" \in DOMAIN u => u.styleOverrides # before.styleOverrides
    ELSE DOMAIN u = {"textStyles"}

C14_Step ==
    /\ (last'.op \in {"update", "fire"} /\ last'.patches # <<>>)
          => NarrowPatch(last'.patches[1].updates, activeTextStyleKey, layerRef)
    /\ last'.op # "collab"
          => \A i \in Ids : store'[i].variables = store[i].variables

(* C14: a single write on the element hands over design, classes and, only
   when it changed, styleOverrides; a write on a text style hands over
   textStyles alone; so no write of the hook, direct or deferred, changes
   the field another collaborator wrote to the same element. *)
C14_NarrowFields == [][C14_Step]_vars

(* A timer fired on a cache that had not seen the collaborator's write, and
   the element keeps that write. *)
C14_Witness ==
    /\ last.op = "fire" /\ Emitted /\ LastPatch.id = "A"
    /\ store["A"].variables = "v1"
    /\ layerRef.variables = "v0"

----------------------------------------------------------------------------
(* The design and classes a read looks at: the element's, or those of the
   targeted text style; <<>> when the style does not exist *)
ReadTarget(l, key) ==
    IF key = Null THEN <<[design |-> l.design, classes |-> l.classes]>>
    ELSE LET textStyle == getTextStyle(l.textStyles, key)
         IN  IF textStyle = <<>> THEN <<>>
             ELSE <<[design |-> textStyle[1].design, classes |-> textStyle[1].classes]>>

(* The (tier, state) places a read at `breakpoint` and `uiState` looks at,
   in order *)
Probes(breakpoint, uiState) ==
    LET at(tier) == <<[bp |-> tier, st |-> uiState], [bp |-> tier, st |-> "neutral"]>>
    IN  IF breakpoint = "mobile" THEN at("mobile") \o at("tablet") \o at("desktop")
        ELSE IF breakpoint = "tablet" THEN at("tablet") \o at("desktop")
        ELSE at("desktop")

(* The token of `property` at the first place that holds one, or Null *)
RECURSIVE ProbeFirst(_, _, _)
ProbeFirst(classes, property, probes) ==
    IF probes = <<>> THEN Null
    ELSE LET here(t) == /\ t.bp = Head(probes).bp /\ t.st = Head(probes).st
                        /\ getConflictingClassPattern(property, t.cls)
             found == SelectSeq(classes, here)
         IN  IF found # <<>> THEN found[1].cls
             ELSE ProbeFirst(classes, property, Tail(probes))

CascadeExample ==
    <<Tok("desktop", "neutral", "w-full"), Tok("mobile", "hover", "w-1/2")>>

(* C15: with a non-empty class list getDesignProperty returns the decoded
   token of the active state at the active tier, else of the neutral state
   at that tier, else the same at each broader tier, else undefined; with
   {desktop neutral: w-full, mobile hover: w-1/2} the width reads 'full'
   at mobile/neutral and '1/2' at mobile/hover. *)
C15_CascadeRead ==
    LET target == ReadTarget(layer, activeTextStyleKey)
    IN  /\ (~IsNull(layer) /\ target # <<>> /\ target[1].classes # <<>>)
              => \A p \in Props :
                    LET token == ProbeFirst(target[1].classes, p,
                                            Probes(activeBreakpoint, activeUIState))
                    IN  getDesignProperty(CategoryOf(p), p)
                           = IF token = Null THEN Undefined
                             ELSE mapClassToDesignValue(token, p)
        /\ (layer.classes = CascadeExample /\ activeTextStyleKey = Null
            /\ activeBreakpoint = "mobile")
              => getDesignProperty("sizing", "width")
                    = IF activeUIState = "hover" THEN "1/2" ELSE "full"

(* The example list is read at mobile/hover and gives the mobile hover
   token's value. *)
C15_Witness ==
    /\ layer.classes = CascadeExample /\ activeTextStyleKey = Null
    /\ activeBreakpoint = "mobile" /\ activeUIState = "hover"
    /\ getDesignProperty("sizing", "width") = "1/2"

----------------------------------------------------------------------------
(* C16: getDesignProperty returns design[category][property] exactly when
   the target's class list is empty; with a non-empty list in which no
   token of the property resolves it returns undefined whatever the design
   object holds, and with a token that resolves it returns that token's
   value.  The target is the element or the targeted text style. *)
C16_DesignFallbackOnlyWhenEmpty ==
    LET target == ReadTarget(layer, activeTextStyleKey)
    IN  (~IsNull(layer) /\ target # <<>>)
           => \A p \in Props :
                 LET read == getDesignProperty(CategoryOf(p), p)
                     held == DesignValue(target[1].design, CategoryOf(p), p)
                     token == ProbeFirst(target[1].classes, p,
                                         Probes(activeBreakpoint, activeUIState))
                 IN  IF target[1].classes = <<>> THEN read = held
                     ELSE IF token = Null THEN read = Undefined
                     ELSE read = mapClassToDesignValue(token, p)

(* The element holds a font size in its design and only a width token in
   its class list: the font size reads undefined. *)
C16_Witness ==
    /\ activeTextStyleKey = Null
    /\ layer.classes # <<>>
    /\ TokensOf(layer.classes, "fontSize") = <<>>
    /\ DesignValue(layer.design, "typography", "fontSize") = "xl"
    /\ getDesignProperty("typography", "fontSize") = Undefined

----------------------------------------------------------------------------
(* A call for `p` has just been made *)
ScheduledNow(p) == last'.op = "schedule" /\ last'.property = p

(* The timer of `p` has just expired *)
FiredNow(p) == last'.op = "fire" /\ last'.property = p

(* One step of the deferred writes of `p`: a call leaves the timer pending
   with the value of that call, nothing else changes a pending value, only
   the timer's expiry ends a pending call, and the expiry emits one patch
   with the pending value, which the cache then holds. *)
StepOf(p) ==
    /\ ScheduledNow(p)
          => /\ debounced'[p] # Idle
             /\ debounced'[p][1].value = last'.value
             /\ emitted' = emitted
    /\ (~ScheduledNow(p) /\ debounced[p] # Idle)
          => \/ debounced'[p] = debounced[p]
             \/ debounced'[p] = Idle /\ FiredNow(p)
    /\ (FiredNow(p) /\ debounced[p] # Idle)
          => /\ last'.value = debounced[p][1].value
             /\ debounced'[p] = Idle
             /\ emitted' = emitted + 1
             /\ Len(last'.patches) = 1
             /\ DesignValue(layerRef'.design, CategoryOf(p), p) = Written(last'.value)

(* Every property's deferred writes follow StepOf *)
C17_Step == \A p \in Props : StepOf(p)

(* C17: once the calls for a property stop, its timer expires (no timer
   stays pending forever), the expiry applies the value of the last call
   with one patch and the cache holds it, and the values of the earlier
   calls were replaced in the pending call and are never applied. *)
C17_LastScheduledWins ==
    /\ \A p \in Props : (debounced[p] # Idle) ~> (debounced[p] = Idle)
    /\ [][C17_Step]_vars

(* The calls have stopped, the second call of a burst was applied and no
   timer is pending. *)
C17_Witness ==
    /\ last.op = "fire" /\ last.calls >= 2 /\ Emitted
    /\ scheduled = MaxPatches
    /\ \A p \in Props : debounced[p] = Idle
    /\ DesignValue(layerRef.design, CategoryOf(last.property), last.property)
          = Written(last.value)

----------------------------------------------------------------------------
(* The design object a single write merges into: the element's, or the one
   of the text style `key` (an empty one when the style has none) *)
DesignOf(l, key) ==
    IF key = Null THEN l.design
    ELSE IF key \in DOMAIN StylesOf(l) THEN StylesOf(l)[key].design
    ELSE EmptyObj

(* `after` is `before` with design[category][property] set to `value`, or
   deleted for a falsy value, and the category marked active; every other
   key of the category and every other category is as before *)
MergedOnly(before, after, category, property, value) ==
    LET categoryData == IF category \in DOMAIN before THEN before[category] ELSE EmptyObj
    IN  /\ category \in DOMAIN after
        /\ DesignValue(after, category, "isActive") = "true"
        /\ DesignValue(after, category, property) = Written(value)
        /\ DOMAIN after[category] \ {property, "isActive"}
              = DOMAIN categoryData \ {property, "isActive"}
        /\ \A k \in DOMAIN categoryData \ {property, "isActive"} :
              after[category][k] = categoryData[k]
        /\ DOMAIN after \ {category} = DOMAIN before \ {category}
        /\ \A c \in DOMAIN before \ {category} : after[c] = before[c]

(* A single write, direct or run by a timer, merges into its target's
   design and hands that design to the caller; a batch whose entries name
   one property merges its last value into the element's design. *)
C18_Step ==
    /\ (last'.op \in {"update", "fire"} /\ last'.patches # <<>>)
          => /\ MergedOnly(DesignOf(layerRef, activeTextStyleKey),
                           DesignOf(layerRef', activeTextStyleKey),
                           CategoryOf(last'.property), last'.property, last'.value)
             /\ PatchDesign(last'.patches[1].updates, activeTextStyleKey)
                   = DesignOf(layerRef', activeTextStyleKey)
    /\ (last'.op = "batch" /\ last'.patches # <<>> /\ last'.property # Null)
          => MergedOnly(layerRef.design, layerRef'.design,
                        CategoryOf(last'.property), last'.property, last'.value)

(* C18: a write merges only the touched property: design[category][property]
   becomes the value (or the key is deleted for a null or empty value),
   isActive is true, and every other property of the category and every
   other category keep their values. *)
C18_MergeTouchesOneProperty == [][C18_Step]_vars

(* The font size has just been removed from a typography category that also
   holds a font weight: the weight and the active flag are still there, and
   so is the width. *)
C18_Witness ==
    /\ last.op = "update" /\ last.property = "fontSize" /\ Falsy(last.value) /\ Emitted
    /\ DesignValue(DesignOf(layer, activeTextStyleKey), "typography", "fontSize") # Undefined
    /\ DesignOf(layerRef, activeTextStyleKey)["typography"]
          = [k \in {"fontWeight", "isActive"} |-> IF k = "isActive" THEN "true" ELSE "bold"]
    /\ DesignValue(layerRef.design, "sizing", "width") = "full"

----------------------------------------------------------------------------
(* A write operation called, or a timer fired, while the cached target is
   null: no patch, and the cache and the caller's elements are untouched *)
C19_Step ==
    (IsNull(layerRef) /\ IsWrite(last'.op))
        => /\ last'.patches = <<>>
           /\ emitted' = emitted
           /\ layerRef' = layerRef
           /\ store' = store
           /\ inflight' = inflight

(* C19: with a null target every write operation, and a deferred write
   that fires while the target is null, emits no patch and leaves the cache
   unchanged, and getDesignProperty returns undefined. *)
C19_NullTargetIsNoOp ==
    /\ [](IsNull(layer) => \A p \in Props : getDesignProperty(CategoryOf(p), p) = Undefined)
    /\ [][C19_Step]_vars

(* A timer scheduled for element A has fired after the selection went away:
   nothing was emitted. *)
C19_Witness ==
    /\ IsNull(layer) /\ IsNull(layerRef)
    /\ last.op = "fire" /\ last.target = "A" /\ last.patches = <<>>
    /\ emitted = 0

----------------------------------------------------------------------------
(* What getDesignProperty returns for every property once `l` is rendered
   with the current style key, breakpoint and state *)
ReadsOf(l) ==
    [p \in Props |-> ReadProperty(l, activeTextStyleKey, CategoryOf(p), p,
                                  activeBreakpoint, activeUIState)]

(* While a text style is the target: a batch or a reset hands the caller
   the element's own design and classes and leaves textStyles, and what a
   read returns, as they were; a single write hands over textStyles,
   leaves the element's own design and classes as they were, and the style
   it wrote is the one a read then looks at. *)
C20_Step ==
    (activeTextStyleKey # Null /\ last'.patches # <<>>)
        => /\ last'.op \in {"batch", "reset"}
              => /\ DOMAIN last'.patches[1].updates = {"design", "classes"}
                 /\ last'.patches[1].updates.design = layerRef'.design
                 /\ last'.patches[1].updates.classes = layerRef'.classes
                 /\ layerRef'.textStyles = layerRef.textStyles
                 /\ ReadsOf(layerRef') = ReadsOf(layerRef)
           /\ last'.op = "update"
              => /\ DOMAIN last'.patches[1].updates = {"textStyles"}
                 /\ layerRef'.design = layerRef.design
                 /\ layerRef'.classes = layerRef.classes
                 /\ ReadTarget(layerRef', activeTextStyleKey)
                       = <<last'.patches[1].updates.textStyles[1][activeTextStyleKey]>>
                 /\ DesignValue(ReadTarget(layerRef', activeTextStyleKey)[1].design,
                                CategoryOf(last'.property), last'.property)
                       = Written(last'.value)

(* C20: updateDesignProperties and resetDesignCategory always write the
   element's own design and classes, also while a text style is the target:
   the text style is left unchanged and a read in text style mode returns
   what it returned before, not the batch's value, whereas
   updateDesignProperty writes the text style that getDesignProperty reads. *)
C20_BatchAndResetWriteElement == [][C20_Step]_vars

(* With the `bold` style as the target, a batch has set the font size to
   3xl on the element, and the read of the font size still returns the
   style's 1.25rem. *)
C20_Witness ==
    /\ activeTextStyleKey = "bold"
    /\ last.op = "batch" /\ last.property = "fontSize" /\ last.value = "3xl" /\ Emitted
    /\ DesignValue(layerRef.design, "typography", "fontSize") = "3xl"
    /\ layerRef.textStyles = layer.textStyles
    /\ layerRef.textStyles # <<>>
    /\ ReadsOf(layerRef)["fontSize"] = "1.25rem"
    /\ ReadsOf(layerRef)["fontSize"] # Decoded("fontSize", "3xl")

----------------------------------------------------------------------------
(* The class list a single write changes: the element's, or the one of the
   text style `key` (an empty one when the style has none) *)
ClassesOf(l, key) ==
    IF key = Null THEN l.classes
    ELSE IF key \in DOMAIN StylesOf(l) THEN StylesOf(l)[key].classes
    ELSE <<>>

(* The tokens of `property` at one breakpoint and state, in order *)
TokensAt(classes, property, breakpoint, uiState) ==
    LET mine(t) == /\ t.bp = breakpoint /\ t.st = uiState
                   /\ getConflictingClassPattern(property, t.cls)
    IN  SelectSeq(classes, mine)

(* A timer's expiry runs the category, property and value of the pending
   call with the breakpoint, state and style key of the latest render: the
   patch has the shape of that key's target, the property's token at the
   active breakpoint and state is the new one (none for a removal), and its
   tokens at every other breakpoint and state are as before. *)
C21_Step ==
    (last'.op = "fire" /\ last'.patches # <<>>)
        => LET p == last'.property
               e == debounced[p][1]
               before == ClassesOf(layerRef, activeTextStyleKey)
               after == ClassesOf(layerRef', activeTextStyleKey)
           IN  /\ last'.value = e.value
               /\ PatchShape(last'.patches[1].updates, activeTextStyleKey)
               /\ TokensAt(after, p, activeBreakpoint, activeUIState)
                     = IF Falsy(e.value) THEN <<>>
                       ELSE <<Tok(activeBreakpoint, activeUIState,
                                  propertyToClass(e.category, p, e.value))>>
               /\ \A b \in Breakpoints : \A st \in UIStates :
                     (<<b, st>> # <<activeBreakpoint, activeUIState>>)
                         => TokensAt(after, p, b, st) = TokensAt(before, p, b, st)
               /\ DesignValue(DesignOf(layerRef', activeTextStyleKey), e.category, p)
                     = Written(e.value)

(* C21: a deferred write keeps only (category, property, value) from
   schedule time and takes the breakpoint, UI state and text style key of
   the latest render at fire time: it adds or replaces the token of the
   (property, active breakpoint, active state) triple and leaves the token
   of the triple it was scheduled at unchanged. *)
C21_FireUsesLatestRender == [][C21_Step]_vars

(* A font size of 3xl was requested at desktop/neutral (the only place
   where requests are made), the breakpoint changed to mobile, and the
   timer fired: the element has the new token at mobile and still has its
   text-xl at desktop/neutral. *)
C21_Witness ==
    /\ last.op = "fire" /\ last.property = "fontSize" /\ last.value = "3xl" /\ Emitted
    /\ activeTextStyleKey = Null
    /\ activeBreakpoint = "mobile"
    /\ TokensAt(layerRef.classes, "fontSize", "mobile", activeUIState)
          = <<Tok("mobile", activeUIState, "text-3xl")>>
    /\ TokensAt(layerRef.classes, "fontSize", "desktop", "neutral")
          = <<Tok("desktop", "neutral", "text-xl")>>

----------------------------------------------------------------------------
(* At most one pending call per property name, and it is a call for that
   property *)
OnePendingPerProperty ==
    \A p \in Props :
        /\ Len(debounced[p]) <= 1
        /\ debounced[p] # Idle => debounced[p][1].property = p

(* A call for `p` under any category takes the place of the pending call
   for `p`, whatever category that one named, and emits nothing; the expiry
   emits one patch that writes the value under the category of the pending
   call and leaves `p` under every other category as it was. *)
C22_Step ==
    /\ \A p \in Props : \A c \in Categories : \A v \in WriteValues(p) :
          DebouncedUpdateDesignProperty(c, p, v)
              => /\ Len(debounced'[p]) = 1
                 /\ debounced'[p][1].category = c
                 /\ debounced'[p][1].value = v
                 /\ debounced'[p][1].calls
                       = IF debounced[p] = Idle THEN 1 ELSE debounced[p][1].calls + 1
                 /\ \A q \in Props \ {p} : debounced'[q] = debounced[q]
                 /\ emitted' = emitted
    /\ \A p \in Props :
          (last'.op = "fire" /\ last'.property = p /\ debounced[p] # Idle /\ last'.patches # <<>>)
              => LET e == debounced[p][1]
                 IN  /\ emitted' = emitted + 1
                     /\ Len(last'.patches) = 1
                     /\ debounced'[p] = Idle
                     /\ DesignValue(layerRef'.design, e.category, p) = Written(e.value)
                     /\ \A c \in Categories \ {e.category} :
                           DesignValue(layerRef'.design, c, p)
                              = DesignValue(layerRef.design, c, p)

(* C22: the pending-edit timers are keyed by the property name alone: two
   deferred writes of one property name under different categories share
   one timer, only the later call produces a patch and the earlier call's
   category and value are never applied; there is at most one pending
   deferred write per property name at any time. *)
C22_TimersKeyedByProperty ==
    /\ []OnePendingPerProperty
    /\ [][C22_Step]_vars

(* Every call so far was for the width and fell into one burst, the first
   under `typography` and the last under `sizing`: one patch was emitted,
   the width is set under `sizing` and was never set under `typography`. *)
C22_Witness ==
    /\ last.op = "fire" /\ last.property = "width" /\ last.value = "full"
    /\ last.calls = scheduled /\ scheduled >= 2
    /\ emitted = 1 /\ Len(last.patches) = 1
    /\ DesignValue(layerRef.design, "sizing", "width") = "full"
    /\ DesignValue(layerRef.design, "typography", "width") = Undefined
    /\ \A p \in Props : debounced[p] = Idle

====
